---------------------------- MODULE Spec2Model ----------------------------
(***************************************************************************)
(* A model of tapgen: variable validation (variable.rs), the entry tree    *)
(* builder and the renderer (template.rs), variable resolution             *)
(* (generate.rs) and the merge of the staged output into the destination   *)
(* (copy.rs).                                                              *)
(*                                                                         *)
(* Conventions.  An Option<T> is a sequence of length 0 (None) or 1        *)
(* (Some).  A string whose characters matter is a sequence of one-letter   *)
(* strings.  A path is the sequence of its components.                     *)
(***************************************************************************)
EXTENDS Integers, Sequences, FiniteSets, TLC

VARIABLES
    \* ---- Variable::validate (variable.rs)
    variable,   \* the declaration handed to validate
    vresult,    \* <<>> before the call, <<r>> after it
    \* ---- copy_dir_all (copy.rs)
    src,        \* the staged tree: the set of its paths below the root
    dst,        \* the destination: path -> [kind, content]
    dst0,       \* the destination as it was before the walk
    force,      \* the --overwrite flag
    frames,     \* the call stack of copy_dir_all, innermost last
    apc,        \* "walk", "done" (Ok returned) or "failed" (Err returned)
    aresult,    \* <<>>, or <<creates, overwrites, skips>> once Ok is returned
    asked,      \* path -> how often prompt::confirm was called for it
    counted,    \* path -> the counter that was incremented for it
    \* ---- Template::init and Template::generate (template.rs)
    tree,       \* the files and directories below the template root
    base,       \* Template::base, relative to the root
    exclude,    \* Metadata::exclude
    copy,       \* Metadata::copy (init adds the binary files to it)
    templates,  \* the names registered in Template::environment
    entries,    \* Template::entries, flattened in ascending depth
    gvalues,    \* the context handed to generate
    staged,     \* the staging directory: rendered path -> [kind, content]
    gidx,       \* the entry generate handles next
    handled,    \* per entry handled so far, the arm generate took
    basename,   \* generate's local Option<String>
    gpc,        \* "load", "loaded", "generating", "ok", "loadfailed", "failed"
    gerr,       \* the error of a failed load or generate
    gcall,      \* which call of generate on the loaded template this is
    gfirst,     \* what the first call of generate returned, once it is over
    \* ---- Template::load and Generate::run (template.rs, generate.rs)
    table,      \* the definition file's top-level keys, in source order
    variables,  \* Template::variables (an IndexMap), in insertion order
    git,        \* git on this machine: "missing", "failing", "unconfigured", "configured"
    values,     \* run's context: name -> Option<Value>
    ridx,       \* the variable the loop of run handles next
    prompted,   \* the names prompt_variable was called for, in order
    rpc,        \* "load", "before", "seed", "resolve", "resolved", "after",
                \* "confirm", "done" (Ok returned) or "failed"
    rerr,       \* the error run returned
    phases,     \* the calls run has made after load, in order
    tempdir,    \* the staging directory on disk: "none", "exists", "deleted"
    output,     \* what happened to the Output: "created", then how it ended
    answered,   \* the answer to "Apply output?", once it was asked
    dest        \* the destination: "untouched" or "touched"

varsV == <<variable, vresult>>
varsA == <<src, dst, dst0, force, frames, apc, aresult, asked, counted>>
varsG == <<tree, base, exclude, copy, templates, entries, gvalues, staged,
           gidx, handled, basename, gpc, gerr, gcall, gfirst>>
varsR == <<table, variables, git, values, ridx, prompted, rpc, rerr,
           phases, tempdir, output, answered, dest>>
vars == <<variable, vresult, src, dst, dst0, force, frames, apc, aresult,
          asked, counted, tree, base, exclude, copy, templates, entries,
          gvalues, staged, gidx, handled, basename, gpc, gerr, gcall, gfirst,
          table, variables, git, values, ridx, prompted, rpc, rerr,
          phases, tempdir, output, answered, dest>>

None == <<>>
Some(x) == <<x>>
IsSome(o) == o # <<>>
Unwrap(o) == o[1]
Range(s) == {s[i] : i \in 1..Len(s)}

RECURSIVE SeqsUpTo(_, _)
\* every sequence over S of length at most n
SeqsUpTo(S, n) ==
    IF n = 0 THEN {<<>>}
    ELSE LET shorter == SeqsUpTo(S, n - 1)
         IN  shorter \cup {Append(s, x) : s \in {t \in shorter : Len(t) = n - 1}, x \in S}

(***************************************************************************)
(*                     Variable::validate  (variable.rs)                   *)
(***************************************************************************)
MaxStrLen == 2
MaxChoices == 2
MaxArrayLen == 2
MaxInt == 2

Chars == {"a", "c", "1"}
Strings == SeqsUpTo(Chars, MaxStrLen)
ChoiceStrings == {<<"a">>, <<"c", "a">>}

\* toml::Value, as far as validate looks at it: the type and the payload.
StrValue(s) == [type |-> "string", s |-> s, a |-> <<>>, i |-> 0, b |-> FALSE]
ArrValue(a) == [type |-> "array", s |-> <<>>, a |-> a, i |-> 0, b |-> FALSE]
IntValue(i) == [type |-> "integer", s |-> <<>>, a |-> <<>>, i |-> i, b |-> FALSE]
BoolValue(b) == [type |-> "boolean", s |-> <<>>, a |-> <<>>, i |-> 0, b |-> b]
FloatValue == [type |-> "float", s |-> <<>>, a |-> <<>>, i |-> 0, b |-> FALSE]

\* an element of a toml array: a string, or something as_str() gives None for
StrElem(s) == [str |-> TRUE, s |-> s]
OtherElem == [str |-> FALSE, s |-> <<>>]
Elems == {StrElem(s) : s \in {<<"a">>, <<"c">>}} \cup {OtherElem}

Defaults ==
    {StrValue(s) : s \in Strings}
    \cup {ArrValue(a) : a \in SeqsUpTo(Elems, MaxArrayLen)}
    \cup {IntValue(i) : i \in 0..MaxInt}
    \cup {BoolValue(b) : b \in BOOLEAN}
    \cup {FloatValue}

\* Pattern(Regex): the two regular expressions of the model
LowerPattern == "^[a-z]+$"
DigitPattern == "^[0-9]+$"
Patterns == {LowerPattern, DigitPattern}
LowerChars == {"a", "c"}
DigitChars == {"1"}

\* Pattern::is_match
is_match(pattern, value) ==
    LET class == IF pattern = LowerPattern THEN LowerChars ELSE DigitChars
    IN  Len(value) > 0 /\ \A i \in 1..Len(value) : value[i] \in class

Variables ==
    [default : Defaults,
     choices : {None} \cup {Some(c) : c \in SeqsUpTo(ChoiceStrings, MaxChoices)},
     range : {None} \cup {Some(<<lo, hi>>) : lo \in 0..MaxInt, hi \in 0..MaxInt},
     pattern : {None} \cup {Some(p) : p \in Patterns}]

Ok == [ok |-> TRUE, err |-> "", field |-> ""]
Err(kind, field) == [ok |-> FALSE, err |-> kind, field |-> field]

\* the match on the default's type
CheckType(v) ==
    IF v.default.type \in {"string", "array", "integer", "boolean"}
    THEN Ok
    ELSE Err("UnsupportedType", "")

\* the String arm of the choices check
StringOutsideChoicesEmptyToo(default, choices) == default \notin Range(choices)
StringOutsideChoices(default, choices) ==
    default # <<>> /\ default \notin Range(choices)

\* the Array arm of the choices check
ArrayOutsideChoices(default, choices) ==
    /\ default # <<>>
    /\ \E k \in 1..Len(default) :
          IF default[k].str THEN default[k].s \notin Range(choices) ELSE TRUE

\* if let Some(choices) = &self.choices { ... }
CheckChoices(v) ==
    IF ~IsSome(v.choices) THEN Ok
    ELSE LET choices == Unwrap(v.choices) IN
         IF IsSome(v.pattern) THEN Err("IllegalField", "pattern with choices")
         ELSE IF choices = <<>> THEN Err("DefaultOutsideChoices", "")
         ELSE IF v.default.type = "string"
              THEN IF StringOutsideChoices(v.default.s, choices)
                   THEN Err("DefaultOutsideChoices", "") ELSE Ok
         ELSE IF v.default.type = "array"
              THEN IF ArrayOutsideChoices(v.default.a, choices)
                   THEN Err("DefaultOutsideChoices", "") ELSE Ok
         ELSE Err("IllegalField", "choices")

\* the range check with `min > max` in place of `min >= max`
CheckRangeAllowingEmpty(v) ==
    IF ~IsSome(v.range) THEN Ok
    ELSE LET min == Unwrap(v.range)[1]
             max == Unwrap(v.range)[2]
         IN  IF v.default.type = "integer"
             THEN IF min > max \/ v.default.i < min \/ v.default.i > max
                  THEN Err("UnreasonableRange", "") ELSE Ok
             ELSE Err("IllegalField", "range")

\* if let Some((min, max)) = &self.range { ... }
CheckRange(v) ==
    IF ~IsSome(v.range) THEN Ok
    ELSE LET min == Unwrap(v.range)[1]
             max == Unwrap(v.range)[2]
         IN  IF v.default.type = "integer"
             THEN IF min >= max \/ v.default.i < min \/ v.default.i > max
                  THEN Err("UnreasonableRange", "") ELSE Ok
             ELSE Err("IllegalField", "range")

\* if self.pattern.is_some() { ... }: the default is never matched against it
CheckPattern(v) ==
    IF ~IsSome(v.pattern) THEN Ok
    ELSE IF v.default.type = "string" THEN Ok
    ELSE Err("IllegalField", "pattern")

\* Variable::validate: the first failing check decides
validate(v) ==
    IF ~CheckType(v).ok THEN CheckType(v)
    ELSE IF ~CheckChoices(v).ok THEN CheckChoices(v)
    ELSE IF ~CheckRange(v).ok THEN CheckRange(v)
    ELSE CheckPattern(v)

IdleValidate ==
    /\ variable = [default |-> FloatValue, choices |-> None, range |-> None,
                   pattern |-> None]
    /\ vresult = None

IdleApply ==
    /\ src = {}
    /\ dst = <<>>
    /\ dst0 = <<>>
    /\ force = FALSE
    /\ frames = <<>>
    /\ apc = "idle"
    /\ aresult = <<>>
    /\ asked = <<>>
    /\ counted = <<>>

IdleGenerate ==
    /\ tree = {}
    /\ base = <<>>
    /\ exclude = {}
    /\ copy = {}
    /\ templates = {}
    /\ entries = <<>>
    /\ gvalues = <<>>
    /\ staged = <<>>
    /\ gidx = 0
    /\ handled = <<>>
    /\ basename = None
    /\ gpc = "idle"
    /\ gerr = ""
    /\ gcall = 0
    /\ gfirst = None

IdleRun ==
    /\ table = <<>>
    /\ variables = <<>>
    /\ git = "missing"
    /\ values = <<>>
    /\ ridx = 0
    /\ prompted = <<>>
    /\ rpc = "idle"
    /\ rerr = ""
    /\ phases = <<>>
    /\ tempdir = "none"
    /\ output = <<>>
    /\ answered = None
    /\ dest = "untouched"

\* what the steps of one component leave alone
OnlyValidate == UNCHANGED <<varsA, varsG, varsR>>
OnlyApply == UNCHANGED <<varsV, varsG, varsR>>
OnlyGenerate == UNCHANGED <<varsV, varsA, varsR>>
OnlyRun == UNCHANGED <<varsV, varsA, varsG>>

InitValidate ==
    /\ variable \in Variables
    /\ vresult = None
    /\ IdleApply
    /\ IdleGenerate
    /\ IdleRun

Validate ==
    /\ vresult = None
    /\ vresult' = Some(validate(variable))
    /\ UNCHANGED variable
    /\ OnlyValidate

NextValidate == Validate

SpecValidate == InitValidate /\ [][NextValidate]_vars

\* ---- claims about Variable::validate

Validated == vresult # None
VResult == Unwrap(vresult)
IsString(v) == v.default.type = "string"
IsArray(v) == v.default.type = "array"
ArrayHasOutsider(v) ==
    /\ v.default.a # <<>>
    /\ \E k \in 1..Len(v.default.a) :
          v.default.a[k] \notin {StrElem(c) : c \in Range(Unwrap(v.choices))}

\* C9: validation rejects a String variable whose non-empty default does not
\* match its pattern, with a pattern-mismatch cause, and accepts one whose
\* default matches the pattern (no choices and no range declared).
C9_DefaultMatchesPattern ==
    (/\ Validated
     /\ IsString(variable)
     /\ IsSome(variable.pattern)
     /\ ~IsSome(variable.choices)
     /\ ~IsSome(variable.range))
    => IF is_match(Unwrap(variable.pattern), variable.default.s)
       THEN VResult.ok
       ELSE variable.default.s # <<>>
            => (~VResult.ok /\ VResult.err = "PatternMismatch")

\* C9, the diverging state: default "1" against ^[a-z]+$ has been validated
\* and the result is Ok.
C9_MismatchAccepted ==
    /\ Validated
    /\ variable.default = StrValue(<<"1">>)
    /\ variable.pattern = Some(LowerPattern)
    /\ ~IsSome(variable.choices)
    /\ ~IsSome(variable.range)
    /\ VResult.ok

\* C10 as stated: a String's non-empty default outside its choices, or an
\* Array's non-empty default with an element outside its choices, fails with
\* DefaultOutsideChoices; an empty String default is valid whatever the
\* pattern and the choices are.
C10_Original ==
    Validated =>
      /\ (/\ IsString(variable) /\ IsSome(variable.choices)
          /\ variable.default.s # <<>>
          /\ variable.default.s \notin Range(Unwrap(variable.choices)))
         => VResult = Err("DefaultOutsideChoices", "")
      /\ (/\ IsArray(variable) /\ IsSome(variable.choices)
          /\ ArrayHasOutsider(variable))
         => VResult = Err("DefaultOutsideChoices", "")
      /\ (/\ IsString(variable) /\ variable.default.s = <<>>
          /\ ~IsSome(variable.range))
         => VResult.ok

\* C10 amended: with choices and no pattern declared, a String's non-empty
\* default outside the choices, or an Array's non-empty default with an
\* element outside them, fails with DefaultOutsideChoices; choices declared
\* together with a pattern fail as an illegal field instead; an empty String
\* default (no range) is valid unless choices are declared empty or together
\* with a pattern, and then the cause is the one of that rule.
C10_DefaultOutsideChoices ==
    Validated =>
      /\ (/\ IsString(variable) /\ IsSome(variable.choices)
          /\ ~IsSome(variable.pattern)
          /\ variable.default.s # <<>>
          /\ variable.default.s \notin Range(Unwrap(variable.choices)))
         => VResult = Err("DefaultOutsideChoices", "")
      /\ (/\ IsArray(variable) /\ IsSome(variable.choices)
          /\ ~IsSome(variable.pattern)
          /\ ArrayHasOutsider(variable))
         => VResult = Err("DefaultOutsideChoices", "")
      /\ (IsSome(variable.choices) /\ IsSome(variable.pattern)
          /\ variable.default.type # "float")
         => VResult = Err("IllegalField", "pattern with choices")
      /\ (/\ IsString(variable) /\ variable.default.s = <<>>
          /\ ~IsSome(variable.range))
         => IF ~IsSome(variable.choices) THEN VResult.ok
            ELSE IF IsSome(variable.pattern)
                 THEN VResult = Err("IllegalField", "pattern with choices")
            ELSE IF Unwrap(variable.choices) = <<>>
                 THEN VResult = Err("DefaultOutsideChoices", "")
            ELSE VResult.ok

\* C10, its cases: default "c" outside the choices ["a"] was rejected with
\* DefaultOutsideChoices.
C10_Witness ==
    /\ Validated
    /\ variable.default = StrValue(<<"c">>)
    /\ variable.choices = Some(<< <<"a">> >>)
    /\ ~IsSome(variable.pattern)
    /\ VResult = Err("DefaultOutsideChoices", "")

IsInteger(v) == v.default.type = "integer"
RangeMin(v) == Unwrap(v.range)[1]
RangeMax(v) == Unwrap(v.range)[2]

MaxDepthA == 2

RECURSIVE SkeletonA(_, _)
SkeletonA(p, r) ==
    IF r = 0 THEN {}
    ELSE {Append(p, "f"), Append(p, "d")} \cup SkeletonA(Append(p, "d"), r - 1)

PathsA == {<<>>} \cup SkeletonA(<<>>, MaxDepthA)

Last(p) == p[Len(p)]
Parent(p) == SubSeq(p, 1, Len(p) - 1)
IsPrefix(p, q) == Len(p) <= Len(q) /\ SubSeq(q, 1, Len(p)) = p

RECURSIVE StagedTrees(_, _)
\* the staged trees below directory p with r more levels
StagedTrees(p, r) ==
    IF r = 0 THEN {{}}
    ELSE {fs \cup ds :
            fs \in {{}, {Append(p, "f")}},
            ds \in {{}} \cup {{Append(p, "d")} \cup sub :
                                sub \in StagedTrees(Append(p, "d"), r - 1)}}

Absent == [kind |-> "absent", content |-> <<>>]
Dir == [kind |-> "dir", content |-> <<>>]
File(content) == [kind |-> "file", content |-> content]
StagedContent(p) == <<"staged", p>>
DstContent(p) == <<"dst", p>>

RECURSIVE DstBelow(_, _)
\* what may exist at the destination below the directory p: sets of
\* <<path, kind>>
DstBelow(p, r) ==
    IF r = 0 THEN {{}}
    ELSE LET at(n) == {{}, {<<Append(p, n), "file">>}}
                      \cup {{<<Append(p, n), "dir">>} \cup sub :
                              sub \in (IF n = "d" THEN DstBelow(Append(p, n), r - 1)
                                       ELSE {{}})}
         IN  {a \cup b : a \in at("f"), b \in at("d")}

DstStates ==
    LET asFs(root, below) ==
          [q \in PathsA |->
             IF q = <<>> THEN root
             ELSE IF <<q, "file">> \in below THEN File(DstContent(q))
             ELSE IF <<q, "dir">> \in below THEN Dir
             ELSE Absent]
    IN  {asFs(Absent, {}), asFs(File(DstContent(<<>>)), {})}
        \cup {asFs(Dir, below) : below \in DstBelow(<<>>, MaxDepthA)}

IsDirEntry(p) == Last(p) = "d"
Children(t, p) == {q \in t : Len(q) = Len(p) + 1 /\ IsPrefix(p, q)}

Frame(dir) == [dir |-> dir, entered |-> FALSE, todo |-> {},
               creates |-> 0, overwrites |-> 0, skips |-> 0]
Top == frames[Len(frames)]
SetTop(f) == [frames EXCEPT ![Len(frames)] = f]

InitApply ==
    /\ src \in StagedTrees(<<>>, MaxDepthA)
    /\ dst0 \in DstStates
    /\ dst = dst0
    /\ force \in BOOLEAN
    /\ frames = <<Frame(<<>>)>>
    /\ apc = "walk"
    /\ aresult = <<>>
    /\ asked = [q \in PathsA |-> 0]
    /\ counted = [q \in PathsA |-> "none"]
    /\ IdleValidate
    /\ IdleGenerate
    /\ IdleRun

\* a failure that hands the counts of the failing frame back with the error
FailReportingCounts ==
    /\ frames' = <<>>
    /\ apc' = "failed"
    /\ aresult' = <<Top.creates, Top.overwrites, Top.skips>>

\* any `?` of the walk: every frame returns the error, the counts are dropped
Fail ==
    /\ frames' = <<>>
    /\ apc' = "failed"
    /\ aresult' = <<>>

\* fs::create_dir_all(&dst)?; fs::read_dir(&src)?
EnterDir ==
    /\ apc = "walk"
    /\ ~Top.entered
    /\ IF dst[Top.dir].kind = "file"
       THEN Fail /\ UNCHANGED dst
       ELSE /\ dst' = [dst EXCEPT ![Top.dir] = Dir]
            /\ frames' = SetTop([Top EXCEPT !.entered = TRUE,
                                           !.todo = Children(src, Top.dir)])
            /\ UNCHANGED <<apc, aresult>>
    /\ UNCHANGED <<src, dst0, force, asked, counted>>
    /\ OnlyApply

\* the is_dir() arm: the recursive call starts
VisitDir ==
    /\ apc = "walk"
    /\ Top.entered
    /\ \E e \in Top.todo :
          /\ IsDirEntry(e)
          /\ frames' = Append(SetTop([Top EXCEPT !.todo = @ \ {e}]), Frame(e))
    /\ UNCHANGED <<src, dst, dst0, force, apc, aresult, asked, counted>>
    /\ OnlyApply

\* whether prompt::confirm is called: `force || prompt::confirm(..)` under
\* `if to.exists()`
NeedsConfirmEvenForced(forced, exists) == exists
NeedsConfirm(forced, exists) == exists /\ ~forced

\* the counter the file arm increments
Category(forced, exists, answer) ==
    IF exists
    THEN IF forced \/ answer THEN "overwritten" ELSE "skipped"
    ELSE "created"

\* a file arm that counts an overwritten file as skipped too
BumpOverwrittenTwice(f, category) ==
    [f EXCEPT !.creates = @ + (IF category = "created" THEN 1 ELSE 0),
              !.overwrites = @ + (IF category = "overwritten" THEN 1 ELSE 0),
              !.skips = @ + (IF category \in {"skipped", "overwritten"} THEN 1 ELSE 0)]

Bump(f, category) ==
    [f EXCEPT !.creates = @ + (IF category = "created" THEN 1 ELSE 0),
              !.overwrites = @ + (IF category = "overwritten" THEN 1 ELSE 0),
              !.skips = @ + (IF category = "skipped" THEN 1 ELSE 0)]

\* the else arm: count the file, then fs::copy(entry.path(), to)? whatever
\* was counted
VisitFile ==
    /\ apc = "walk"
    /\ Top.entered
    /\ \E e \in Top.todo :
          /\ ~IsDirEntry(e)
          /\ LET exists == dst[e].kind # "absent"
                 ask == NeedsConfirm(force, exists)
             IN  \E answer \in (IF ask THEN BOOLEAN ELSE {TRUE}) :
                   LET category == Category(force, exists, answer) IN
                   /\ asked' = [asked EXCEPT ![e] = @ + (IF ask THEN 1 ELSE 0)]
                   /\ counted' = [counted EXCEPT ![e] = category]
                   /\ IF dst[e].kind = "dir"
                      THEN Fail /\ UNCHANGED dst
                      ELSE /\ dst' = [dst EXCEPT ![e] = File(StagedContent(e))]
                           /\ frames' = SetTop(Bump([Top EXCEPT !.todo = @ \ {e}],
                                                    category))
                           /\ UNCHANGED <<apc, aresult>>
    /\ UNCHANGED <<src, dst0, force>>
    /\ OnlyApply

\* Ok((creates, overwrites, skips)): the caller adds them to its own
ReturnDir ==
    /\ apc = "walk"
    /\ Top.entered
    /\ Top.todo = {}
    /\ IF Len(frames) = 1
       THEN /\ frames' = <<>>
            /\ apc' = "done"
            /\ aresult' = <<Top.creates, Top.overwrites, Top.skips>>
       ELSE LET caller == frames[Len(frames) - 1] IN
            /\ frames' = Append(SubSeq(frames, 1, Len(frames) - 2),
                                [caller EXCEPT !.creates = @ + Top.creates,
                                               !.overwrites = @ + Top.overwrites,
                                               !.skips = @ + Top.skips])
            /\ UNCHANGED <<apc, aresult>>
    /\ UNCHANGED <<src, dst, dst0, force, asked, counted>>
    /\ OnlyApply

NextApply == EnterDir \/ VisitDir \/ VisitFile \/ ReturnDir

SpecApply == InitApply /\ [][NextApply]_vars

\* ---- claims about copy_dir_all

StagedFiles == {q \in src : ~IsDirEntry(q)}
ExistedBefore(q) == dst0[q].kind # "absent"

\* C1: with force=false, a staged file whose destination exists and for which
\* the resolver declined (so that it was counted skipped) leaves the
\* destination's bytes unchanged.
C1_SkippedUntouched ==
    \A q \in StagedFiles :
       (~force /\ counted[q] = "skipped") => dst[q] = dst0[q]

\* C1, the diverging state: a file counted skipped holds the staged bytes.
C1_SkippedOverwritten ==
    \E q \in StagedFiles :
       /\ ~force /\ counted[q] = "skipped"
       /\ dst0[q] = File(DstContent(q))
       /\ dst[q] = File(StagedContent(q))

\* C2: a staged file absent at the destination is copied and counted created
\* without the resolver being consulted; one present with force=true is
\* counted overwritten and overwritten without the resolver being consulted;
\* with force=false the resolver is consulted exactly once per present file.
C2_CountsAndConsultations ==
    /\ \A q \in PathsA :
          /\ asked[q] <= 1
          /\ (counted[q] = "none" \/ q \notin StagedFiles) => asked[q] = 0
    /\ \A q \in StagedFiles :
          /\ apc = "done" => counted[q] # "none"
          /\ counted[q] # "none" =>
               /\ ~ExistedBefore(q) =>
                    /\ counted[q] = "created"
                    /\ asked[q] = 0
                    /\ dst[q] = File(StagedContent(q))
               /\ (ExistedBefore(q) /\ force) =>
                    /\ counted[q] = "overwritten"
                    /\ asked[q] = 0
                    /\ dst0[q].kind = "file" => dst[q] = File(StagedContent(q))
               /\ (ExistedBefore(q) /\ ~force) =>
                    /\ counted[q] \in {"overwritten", "skipped"}
                    /\ asked[q] = 1

\* C2, its cases: a finished walk under force=true that overwrote one file
\* and created another.
C2_Witness ==
    /\ apc = "done"
    /\ force
    /\ \E q, r \in StagedFiles :
          /\ counted[q] = "overwritten" /\ dst0[q].kind = "file"
          /\ counted[r] = "created"

StagedDirs == {q \in src : IsDirEntry(q)}
CountedAs(category) == Cardinality({q \in StagedFiles : counted[q] = category})

\* C18: when copy_dir_all fails at some entry, the caller gets the error and
\* no counts; every file the walk wrote before keeps the staged bytes (no
\* rollback); the failing step writes nothing, no staged file the walk had not
\* reached is touched, nothing outside the staged paths is touched, and
\* nothing is written after the failure.
C18_NotTransactional ==
    /\ [](apc = "failed" =>
            /\ aresult = <<>>
            /\ \A q \in StagedFiles :
                  /\ counted[q] = "none" => dst[q] = dst0[q]
                  /\ (counted[q] # "none" /\ dst0[q].kind # "dir")
                       => dst[q] = File(StagedContent(q))
                  /\ (counted[q] # "none" /\ dst0[q].kind = "dir")
                       => dst[q] = dst0[q]
            /\ \A q \in StagedDirs : dst[q] \in {dst0[q], Dir}
            /\ \A q \in PathsA \ (src \cup {<<>>}) : dst[q] = dst0[q])
    /\ [][apc' = "failed" => dst' = dst]_vars

\* C18, its case: the walk has failed after it created one file and before
\* it reached another, and no counts were returned.
C18_Witness ==
    /\ apc = "failed"
    /\ aresult = <<>>
    /\ \E q, r \in StagedFiles :
          /\ counted[q] = "created"
          /\ dst[q] = File(StagedContent(q))
          /\ counted[r] = "none"
          /\ dst[r] = dst0[r]

\* C19: when copy_dir_all returns Ok, every staged file was counted in
\* exactly one category, each returned count is the number of files of its
\* category, so that created + overwritten + skipped is the number of staged
\* files, and every staged directory exists at the destination and was
\* counted nowhere.
C19_CountsCoverFiles ==
    apc = "done" =>
      /\ \A q \in StagedFiles : counted[q] \in {"created", "overwritten", "skipped"}
      /\ aresult = <<CountedAs("created"), CountedAs("overwritten"),
                     CountedAs("skipped")>>
      /\ aresult[1] + aresult[2] + aresult[3] = Cardinality(StagedFiles)
      /\ \A q \in StagedDirs \cup {<<>>} : dst[q] = Dir /\ counted[q] = "none"

\* C19, its case: a finished walk that created a directory the destination
\* lacked, created the file below it and skipped a file that existed.
C19_Witness ==
    /\ apc = "done"
    /\ \E q \in StagedDirs : dst0[q] = Absent /\ dst[q] = Dir
    /\ CountedAs("created") > 0
    /\ CountedAs("skipped") > 0

(***************************************************************************)
(*            Template::init and Template::generate  (template.rs)         *)
(*                                                                         *)
(* The template root holds, below every directory, a directory "d", a      *)
(* file "f" and a file "{{v}}" whose name is a placeholder, down to        *)
(* MaxDepthG components.  The file "f" is text, binary (it holds a NUL     *)
(* byte) or text that is no valid template; "{{v}}" is text.  Every text  *)
(* file's body uses the variable v.                                        *)
(***************************************************************************)
MaxDepthG == 2

FileKinds == {"text", "binary", "bad"}
Entry(path, kind) == [path |-> path, kind |-> kind]
IsFileEntry(e) == e.kind # "dir"

RECURSIVE TreesG(_, _)
\* the template trees below directory p with r more levels
TreesG(p, r) ==
    IF r = 0 THEN {{}}
    ELSE {fs \cup vs \cup ds :
            fs \in {{}} \cup {{Entry(Append(p, "f"), k)} : k \in FileKinds},
            vs \in {{}, {Entry(Append(p, "{{v}}"), "text")}},
            ds \in {{}} \cup {{Entry(Append(p, "d"), "dir")} \cup sub :
                                sub \in TreesG(Append(p, "d"), r - 1)}}

\* the absolute path of the template root, "/tpl"
RootAbs == <<"", "tpl">>
AbsPath(rel) == RootAbs \o rel

(***************************************************************************)
(* glob::Pattern, for patterns made of whole components: a literal name or *)
(* "*".  With the default MatchOptions "*" matches any run of characters,  *)
(* separators included, so between two separators it stands for one or     *)
(* more components, and the pattern "*" alone also matches the empty path. *)
(***************************************************************************)
RECURSIVE MatchFrom(_, _)
MatchFrom(pattern, path) ==
    IF pattern = <<>> THEN path = <<>>
    ELSE IF Head(pattern) = "*"
         THEN \E k \in 1..Len(path) :
                 MatchFrom(Tail(pattern), SubSeq(path, k + 1, Len(path)))
    ELSE /\ path # <<>>
         /\ Head(path) = Head(pattern)
         /\ MatchFrom(Tail(pattern), Tail(path))

\* Pattern::matches_path
matches_path(pattern, path) ==
    IF pattern = <<"*">> /\ path = <<>> THEN TRUE ELSE MatchFrom(pattern, path)

\* GlobPatterns::matches_path_any
matches_path_any(patterns, path) ==
    \E pattern \in patterns : matches_path(pattern, path)

ExcludeOptions == {{}, {<<"d">>}, {<<"d", "*">>}, {<<"*">>}}
CopyOptions == {{}, {<<"d", "f">>}, {<<"*", "f">>}}

CtxNames == {"v"}
CtxValues == {"x"}
Contexts == [CtxNames -> {None} \cup {Some(x) : x \in CtxValues}]

\* sort_by_file_name: the names compare as bytes, 'd' < 'f' < '{'
NameRank(n) == IF n = "d" THEN 1 ELSE IF n = "f" THEN 2 ELSE 3

\* the walker yields p before q: a directory before its contents, siblings
\* by name
WalkBefore(p, q) ==
    /\ p # q
    /\ \/ IsPrefix(p, q)
       \/ \E i \in 1..Len(p) :
             /\ i <= Len(q)
             /\ SubSeq(p, 1, i - 1) = SubSeq(q, 1, i - 1)
             /\ NameRank(p[i]) < NameRank(q[i])

RECURSIVE WalkSeq(_)
WalkSeq(S) ==
    IF S = {} THEN <<>>
    ELSE LET first == CHOOSE e \in S :
                         \A o \in S \ {e} : WalkBefore(e.path, o.path)
         IN  <<first>> \o WalkSeq(S \ {first})

\* WalkDir::new(&self.base).sort_by_file_name()
Walker(t, b) == WalkSeq({e \in t : IsPrefix(b, e.path)})

\* utils::is_binary_buf
is_binary_buf(e) == e.kind = "binary"

\* path.components().count()
Depth(path) == Len(path)

\* one turn of init's loop; acc holds metadata.copy, the environment's
\* template names, the entries by depth and the error, if any
InitStep(acc, e) ==
    IF acc.err # "" \/ matches_path_any(exclude, e.path) THEN acc
    ELSE LET pushed ==
               [acc EXCEPT !.byDepth[Depth(e.path)] = Append(@, e)]
         IN  IF ~IsFileEntry(e) THEN pushed
             ELSE IF is_binary_buf(e)
                  THEN [pushed EXCEPT !.copy = @ \cup {e.path}]
             ELSE IF ~matches_path_any(acc.copy, e.path)
                  THEN IF e.kind = "bad"
                       THEN [acc EXCEPT !.err = "TemplateSyntax"]
                       ELSE [pushed EXCEPT !.templates = @ \cup {e.path}]
             ELSE pushed

RECURSIVE InitLoop(_, _)
InitLoop(acc, walk) ==
    IF walk = <<>> THEN acc
    ELSE InitLoop(InitStep(acc, Head(walk)), Tail(walk))

RECURSIVE Flatten(_, _)
\* self.entries.values().flatten(): the depths in ascending order
Flatten(byDepth, d) ==
    IF d \notin DOMAIN byDepth THEN <<>>
    ELSE byDepth[d] \o Flatten(byDepth, d + 1)

InitGenerate ==
    /\ \E t \in TreesG(<<>>, MaxDepthG) : tree = {Entry(<<>>, "dir")} \cup t
    /\ base \in {e.path : e \in {x \in tree : x.kind = "dir"}}
    /\ exclude \in ExcludeOptions
    /\ copy \in CopyOptions
    /\ gvalues \in Contexts
    /\ templates = {}
    /\ entries = <<>>
    /\ staged = <<>>
    /\ gidx = 0
    /\ handled = <<>>
    /\ basename = None
    /\ gpc = "load"
    /\ gerr = ""
    /\ gcall = 1
    /\ gfirst = None
    /\ IdleValidate
    /\ IdleApply
    /\ IdleRun

\* Template::init
TemplateInit ==
    /\ gpc = "load"
    /\ LET start == [copy |-> copy, templates |-> {}, err |-> "",
                     byDepth |-> [d \in 0..MaxDepthG |-> <<>>]]
           end == InitLoop(start, Walker(tree, base))
       IN  IF end.err # ""
           THEN /\ gpc' = "loadfailed"
                /\ gerr' = end.err
                /\ UNCHANGED <<copy, templates, entries>>
           ELSE /\ gpc' = "loaded"
                /\ copy' = end.copy
                /\ templates' = end.templates
                /\ entries' = Flatten(end.byDepth, 0)
                /\ UNCHANGED gerr
    /\ UNCHANGED <<tree, base, exclude, gvalues, staged, gidx, handled, basename,
                   gcall, gfirst>>
    /\ OnlyGenerate

\* str::escape_default: the names of the model are printable ASCII without
\* quotes or backslashes, which it leaves as they are; any other character
\* becomes an escape sequence
EscapeDefault(name) ==
    IF name \in {"d", "f", "{{v}}"} THEN name ELSE "\\u{..}"

\* what a component of a path renders to: an undefined variable renders
\* empty
RenderName(name, ctx) ==
    IF EscapeDefault(name) = "{{v}}"
    THEN IF IsSome(ctx["v"]) THEN Unwrap(ctx["v"]) ELSE ""
    ELSE EscapeDefault(name)

\* Template::render_path: the rendered name, component by component
render_path(path, ctx) == [i \in 1..Len(path) |-> RenderName(path[i], ctx)]

\* tempdir.path().join(&rendered_name), relative to the staging directory:
\* an empty component names nothing
Joined(rendered) == SelectSeq(rendered, LAMBDA c : c # "")

\* what a file write (fs::copy, File::create) at rendered path rp runs into
WriteError(fs, rp) ==
    IF rp = <<>> THEN "IsADirectory"
    ELSE IF Parent(rp) \notin DOMAIN fs THEN "NotFound"
    ELSE IF fs[Parent(rp)].kind # "dir" THEN "NotADirectory"
    ELSE IF rp \in DOMAIN fs /\ fs[rp].kind = "dir" THEN "IsADirectory"
    ELSE ""

Prefixes(rp) == {SubSeq(rp, 1, k) : k \in 0..Len(rp)}

\* fs::create_dir_all
CreateDirAllError(fs, rp) ==
    IF \E q \in Prefixes(rp) : q \in DOMAIN fs /\ fs[q].kind # "dir"
    THEN "NotADirectory" ELSE ""
CreateDirAll(fs, rp) ==
    [q \in DOMAIN fs \cup Prefixes(rp) |-> IF q \in Prefixes(rp) THEN Dir ELSE fs[q]]

Put(fs, rp, file) == [q \in DOMAIN fs \cup {rp} |-> IF q = rp THEN file ELSE fs[q]]

\* the bytes generate writes: the source's own, or its rendering under ctx
CopiedBytes(e) == <<"bytes", e.path>>
\* a rendering that also depends on which call of generate produced it
RenderedBytesPerCall(e, ctx) == <<"rendered", e.path, ctx["v"], gcall>>
RenderedBytes(e, ctx) == <<"rendered", e.path, ctx["v"]>>

\* the path generate tests the copy patterns on: entry.path(), absolute
CopyTestPath(e) == AbsPath(e.path)

\* let tempdir = TempDir::with_prefix("tapgen-")?
GenerateBegin ==
    /\ gpc = "loaded"
    /\ gpc' = "generating"
    /\ staged' = (<<>> :> Dir)
    /\ gidx' = 1
    /\ UNCHANGED <<tree, base, exclude, copy, templates, entries, gvalues,
                   handled, basename, gerr, gcall, gfirst>>
    /\ OnlyGenerate

\* the staging directory once its TempDir is dropped: removed with all it
\* holds
DroppedTempDir == <<>>

\* a `?` of the loop: generate returns the error and its local `tempdir` goes
\* out of scope
GenerateFails(err) ==
    /\ gpc' = "failed"
    /\ gerr' = err
    /\ staged' = DroppedTempDir
    /\ UNCHANGED gidx

\* one turn of generate's loop
GenerateEntry ==
    /\ gpc = "generating"
    /\ gidx <= Len(entries)
    /\ LET e == entries[gidx]
           rendered_name == render_path(e.path, gvalues)
           rp == Joined(rendered_name)
       IN  /\ basename' = IF e.path = base THEN Some(rendered_name) ELSE basename
           /\ IF IsFileEntry(e)
              THEN IF matches_path_any(copy, CopyTestPath(e))
                   THEN /\ handled' = Append(handled, "copy")
                        /\ IF WriteError(staged, rp) # ""
                           THEN GenerateFails(WriteError(staged, rp))
                           ELSE /\ staged' = Put(staged, rp, File(CopiedBytes(e)))
                                /\ gidx' = gidx + 1
                                /\ UNCHANGED <<gpc, gerr>>
                   ELSE /\ handled' = Append(handled, "render")
                        /\ IF e.path \notin templates
                           THEN GenerateFails("TemplateNotFound")
                           ELSE IF WriteError(staged, rp) # ""
                           THEN GenerateFails(WriteError(staged, rp))
                           ELSE /\ staged' = Put(staged, rp,
                                                 File(RenderedBytes(e, gvalues)))
                                /\ gidx' = gidx + 1
                                /\ UNCHANGED <<gpc, gerr>>
              ELSE /\ handled' = Append(handled, "dir")
                   /\ IF CreateDirAllError(staged, rp) # ""
                      THEN GenerateFails(CreateDirAllError(staged, rp))
                      ELSE /\ staged' = CreateDirAll(staged, rp)
                           /\ gidx' = gidx + 1
                           /\ UNCHANGED <<gpc, gerr>>
    /\ UNCHANGED <<tree, base, exclude, copy, templates, entries, gvalues,
                   gcall, gfirst>>
    /\ OnlyGenerate

\* Ok(Output { tempdir, basename: basename.expect(..) }): the panic of expect
\* unwinds and drops `tempdir`, or aborts the process and leaves the directory,
\* as the build's panic strategy has it
GenerateEnd ==
    /\ gpc = "generating"
    /\ gidx > Len(entries)
    /\ IF IsSome(basename)
       THEN gpc' = "ok" /\ UNCHANGED <<gerr, staged>>
       ELSE /\ gpc' = "failed"
            /\ gerr' = "basename should be determined"
            /\ staged' \in {DroppedTempDir, staged}
    /\ UNCHANGED <<tree, base, exclude, copy, templates, entries, gvalues,
                   gidx, handled, basename, gcall, gfirst>>
    /\ OnlyGenerate

\* what a call of generate handed back: Ok(Output) with the staged tree and
\* the basename, or the error
Returned == [ok |-> gpc = "ok", err |-> gerr, staged |-> staged,
             basename |-> basename]

\* `pub fn generate(&self, values)` borrows the template, so that a caller
\* can call it again, with the same context, once the first call has
\* returned
GenerateAgain ==
    /\ gpc \in {"ok", "failed"}
    /\ gerr # "basename should be determined"
    /\ gcall = 1
    /\ gfirst' = Some(Returned)
    /\ gcall' = gcall + 1
    /\ gpc' = "loaded"
    /\ gerr' = ""
    /\ staged' = <<>>
    /\ gidx' = 0
    /\ handled' = <<>>
    /\ basename' = None
    /\ UNCHANGED <<tree, base, exclude, copy, templates, entries, gvalues>>
    /\ OnlyGenerate

NextGenerate ==
    TemplateInit \/ GenerateBegin \/ GenerateEntry \/ GenerateEnd \/ GenerateAgain

SpecGenerate == InitGenerate /\ [][NextGenerate]_vars

\* ---- claims about Template::init and Template::generate

Walked == {e \in tree : IsPrefix(base, e.path)}
Excluded(e) == matches_path_any(exclude, e.path)
StagedAt(e) == Joined(render_path(e.path, gvalues))
IsStagedDir(q) == q \in DOMAIN staged /\ staged[q].kind = "dir"
Generated == gpc \in {"generating", "ok", "failed"}

\* C3: the entries are handled in ascending depth, and when generate is about
\* to write an entry below the base into the staging directory, every
\* ancestor directory of its rendered path exists there already, whatever
\* the exclude patterns are.
C3_AncestorsStaged ==
    /\ \A i, j \in 1..Len(entries) :
          i < j => Len(entries[i].path) <= Len(entries[j].path)
    /\ (gpc = "generating" /\ gidx <= Len(entries) /\ entries[gidx].path # base)
       => \A q \in Prefixes(Parent(StagedAt(entries[gidx]))) : IsStagedDir(q)

\* C3, the diverging state: the directory d is excluded, its file d/f is not,
\* and generate has failed writing d/f into a staging directory without d.
C3_ChildOfExcludedFails ==
    /\ gpc = "failed"
    /\ gerr = "NotFound"
    /\ exclude = {<<"d">>}
    /\ entries[gidx].path = <<"d", "f">>

\* C4: no path of the staged output is the rendering of a walked source path
\* that matches an exclude pattern.
C4_ExcludedNeverStaged ==
    Generated =>
      \A e \in Walked :
         (Excluded(e) /\ StagedAt(e) # <<>>) => StagedAt(e) \notin DOMAIN staged

\* C4, the diverging state: d is excluded, its subdirectory d/d is not, and
\* the staged output holds the directory d.
C4_ExcludedDirStaged ==
    /\ gpc = "ok"
    /\ exclude = {<<"d">>}
    /\ Entry(<<"d", "d">>, "dir") \in tree
    /\ IsStagedDir(<<"d">>)

\* C5: generate handles every surviving file as the builder classified it: it
\* copies the file exactly when the file is binary or its root-relative path
\* matches a copy pattern, renders it otherwise, and never looks up a
\* template the builder did not register.
C5_HandledAsClassified ==
    /\ gerr # "TemplateNotFound"
    /\ \A i \in 1..Len(handled) :
          IsFileEntry(entries[i]) =>
            /\ (handled[i] = "copy")
                 = (is_binary_buf(entries[i])
                      \/ matches_path_any(copy, entries[i].path))
            /\ handled[i] = "render" => entries[i].path \in templates

\* C5, the diverging state: generate has failed looking up the template of a
\* binary file, with no copy pattern declared.
C5_BinaryLookedUp ==
    /\ gpc = "failed"
    /\ gerr = "TemplateNotFound"
    /\ is_binary_buf(entries[gidx])
    /\ copy = {entries[gidx].path}

\* C6: for a loaded template and a context that defines every variable,
\* generate succeeds and the staged paths are the renderings of the walked
\* source paths that match no exclude pattern (with the directories leading
\* to the rendered base).
C6_StagedIsRenderingOfSurvivors ==
    (/\ gpc \in {"ok", "failed"}
     /\ \A n \in CtxNames : IsSome(gvalues[n]))
    => /\ gpc = "ok"
       /\ DOMAIN staged
            = {StagedAt(e) : e \in {x \in Walked : ~Excluded(x)}}
              \cup Prefixes(Joined(render_path(base, gvalues)))

\* C6, the diverging state: nothing is excluded, no copy pattern is declared,
\* v is defined, and generate has failed.
C6_ValidTemplateFails ==
    /\ gpc = "failed"
    /\ exclude = {}
    /\ \A n \in CtxNames : IsSome(gvalues[n])
    /\ \A e \in tree : e.kind # "bad"

\* C13: when generate aborts on an I/O or render failure after staging has
\* begun, the staging directory and the entries written before the failure
\* still exist once generate has returned the error.
C13_PartialTreeLeft ==
    (gpc = "failed" /\ gerr # "basename should be determined")
    => /\ IsStagedDir(<<>>)
       /\ \A i \in 1..(gidx - 1) : StagedAt(entries[i]) \in DOMAIN staged

\* C13, the diverging state: generate has failed at an entry after it had
\* staged earlier ones, and the staging directory is gone.
C13_StagingRemoved ==
    /\ gpc = "failed"
    /\ gerr \in {"TemplateNotFound", "NotFound"}
    /\ gidx > 1
    /\ ~IsStagedDir(<<>>)

C15_BasenameDetermined ==
    /\ gerr # "basename should be determined"
    /\ gpc \in {"loaded", "generating", "ok", "failed"}
         => Cardinality({i \in 1..Len(entries) : entries[i].path = base}) = 1

\* C15, the diverging state: the base directory d matches the exclude pattern
\* d, no entry of the loaded template is the base, and generate has ended in
\* the failure.
C15_BaseExcluded ==
    /\ gpc = "failed"
    /\ gerr = "basename should be determined"
    /\ base = <<"d">>
    /\ exclude = {<<"d">>}
    /\ \A i \in 1..Len(entries) : entries[i].path # base

(***************************************************************************)
(*               Template::load and Generate::run                          *)
(*                                                                         *)
(* The definition file declares up to MaxVars Boolean variables among the  *)
(* names of VarNames (one of them is the name of an injected key), each    *)
(* with an optional condition over one name.                               *)
(* Around the loop, run loads the template, offers the before hook, seeds   *)
(* the context, calls generate, offers the after hook and asks whether to  *)
(* apply the output; what load, the hooks, generate, copy_dir_all and      *)
(* TempDir::close return is drawn from their possible outcomes.            *)
(***************************************************************************)
MaxVars == 2

VarNames == {"a", "b", "_now"}
InjectedKeys == {"_git", "_now"}
CtxKeys == VarNames \cup InjectedKeys

\* minijinja::Value, as far as a condition looks at it
BoolVal(b) == [kind |-> "bool", truthy |-> b, year |-> FALSE]
\* _now: a map with the keys year, month, ..
NowVal == [kind |-> "map", truthy |-> TRUE, year |-> TRUE]
\* _git: a map with the keys name and email, as far as git config has them
GitVal(configured) == [kind |-> "map", truthy |-> configured, year |-> FALSE]

\* the condition expressions of the model: `n`, `not n`, `n.year`
Cond(op, name) == [op |-> op, name |-> name]
Conditions == {Cond(op, n) : op \in {"truthy", "not", "year"}, n \in VarNames}

Declaration(name, condition) ==
    [name |-> name, default |-> BoolVal(TRUE), condition |-> condition]

NameKey == "__name__"
MetadataEntry == [name |-> NameKey, default |-> BoolVal(FALSE), condition |-> None]

\* the declarations a definition file may hold: distinct names, in any order
DeclarationLists ==
    {ds \in SeqsUpTo({Declaration(n, c) :
                         n \in VarNames,
                         c \in {None} \cup {Some(x) : x \in Conditions}},
                     MaxVars) :
        \A i, j \in 1..Len(ds) : i # j => ds[i].name # ds[j].name}

\* `for (name, value) in table`: toml's Table hands out the keys in the
\* order of the file
TableIter(t) == t

\* name.starts_with("__") && name.ends_with("__")
IsMetadataKey(name) == name = NameKey

InitRun ==
    /\ \E ds \in DeclarationLists : table = <<MetadataEntry>> \o ds
    /\ git \in {"missing", "failing", "unconfigured", "configured"}
    /\ variables = <<>>
    /\ values = [k \in CtxKeys |-> None]
    /\ ridx = 0
    /\ prompted = <<>>
    /\ rpc = "load"
    /\ rerr = ""
    /\ phases = <<>>
    /\ tempdir = "none"
    /\ output = <<>>
    /\ answered = None
    /\ dest = "untouched"
    /\ IdleValidate
    /\ IdleApply
    /\ IdleGenerate

\* what run leaves alone until generate is called
NoOutputYet == UNCHANGED <<tempdir, output, answered, dest>>

\* the ways Template::load fails: utils::Error's variants behind the context
\* "failed to load template", and the panics of init
LoadErrors ==
    {"failed to load template: Io",
     "failed to load template: DeserializeToml",
     "failed to load template: ValidateVariable",
     "failed to load template: UncanonicalizableBasePath",
     "failed to load template: MiniJinja",
     "panic: file encoding should be utf-8"}

\* where run goes on after load, ignoring its error
AfterLoadUnchecked(fault) == "before"
\* the `?` on load's result
AfterLoad(fault) == IF fault = "" THEN "before" ELSE "failed"

\* Template::load: the keys that are not metadata become the variables, in
\* the order the table hands them out; any failure ends run
LoadTemplate ==
    /\ rpc = "load"
    /\ \E fault \in {""} \cup LoadErrors :
          /\ variables' = IF fault = ""
                          THEN SelectSeq(TableIter(table),
                                         LAMBDA d : ~IsMetadataKey(d.name))
                          ELSE <<>>
          /\ rerr' = fault
          /\ rpc' = AfterLoad(fault)
    /\ UNCHANGED <<table, git, values, ridx, prompted, phases>>
    /\ NoOutputYet
    /\ OnlyRun

\* how a hook script ends: exit status 0, another status, or it cannot be run
HookOutcomes == {"ok", "nonzero", "cannot run"}
HookError(which, outcome) ==
    IF outcome = "nonzero" THEN which \o " hook failed"
    ELSE "failed to run hook script"

\* the block around tapgen.before.hook
BeforeHook ==
    /\ rpc = "before"
    /\ \E exists \in BOOLEAN, answer \in BOOLEAN, outcome \in HookOutcomes :
          IF exists /\ answer
          THEN /\ phases' = Append(phases, "before_hook")
               /\ IF outcome = "ok"
                  THEN rpc' = "seed" /\ UNCHANGED rerr
                  ELSE rpc' = "failed" /\ rerr' = HookError("before", outcome)
          ELSE /\ rpc' = "seed"
               /\ UNCHANGED <<phases, rerr>>
    /\ UNCHANGED <<table, variables, git, values, ridx, prompted>>
    /\ NoOutputYet
    /\ OnlyRun

Insert(ctx, name, value) == [ctx EXCEPT ![name] = Some(value)]

\* the two blocks that insert _git and _now
SeedContext ==
    /\ rpc = "seed"
    /\ IF git = "missing"
       THEN /\ rpc' = "failed"
            /\ rerr' = "failed to execute git version command"
            /\ UNCHANGED <<values, ridx>>
       ELSE /\ values' = Insert(IF git = "failing" THEN values
                                ELSE Insert(values, "_git", GitVal(git = "configured")),
                                "_now", NowVal)
            /\ ridx' = 1
            /\ rpc' = "resolve"
            /\ UNCHANGED rerr
    /\ UNCHANGED <<table, variables, git, prompted, phases>>
    /\ NoOutputYet
    /\ OnlyRun

\* Condition::eval(&values)?.is_true(): an undefined name is falsy, and an
\* attribute of an undefined name is an error
EvalCondition(c, ctx) ==
    LET v == ctx[c.name] IN
    IF c.op = "truthy" THEN [err |-> FALSE, val |-> IsSome(v) /\ Unwrap(v).truthy]
    ELSE IF c.op = "not" THEN [err |-> FALSE, val |-> ~(IsSome(v) /\ Unwrap(v).truthy)]
    ELSE IF IsSome(v) THEN [err |-> FALSE, val |-> Unwrap(v).year]
    ELSE [err |-> TRUE, val |-> FALSE]

\* the variable the loop's turn i handles: the IndexMap iterates in insertion
\* order
VariableAtReversed(vs, i) == vs[Len(vs) + 1 - i]
VariableAt(vs, i) == vs[i]

\* the context after a turn of the loop: `continue` when the condition is
\* false, values.insert(name, value) otherwise
AfterTurnDefaulting(ctx, var, pass, value) ==
    IF pass THEN Insert(ctx, var.name, value) ELSE Insert(ctx, var.name, var.default)
AfterTurn(ctx, var, pass, value) ==
    IF pass THEN Insert(ctx, var.name, value) ELSE ctx

\* one turn of `for (name, variable) in &template.variables`
ResolveVariable ==
    /\ rpc = "resolve"
    /\ ridx <= Len(variables)
    /\ LET var == VariableAt(variables, ridx)
           cond == IF IsSome(var.condition)
                   THEN EvalCondition(Unwrap(var.condition), values)
                   ELSE [err |-> FALSE, val |-> TRUE]
       IN  IF cond.err
           THEN /\ rpc' = "failed"
                /\ rerr' = "failed to evaluate condition for variable"
                /\ UNCHANGED <<values, ridx, prompted>>
           ELSE /\ IF cond.val
                   THEN \E answer \in BOOLEAN :
                           values' = AfterTurn(values, var, TRUE, BoolVal(answer))
                   ELSE values' = AfterTurn(values, var, FALSE, var.default)
                /\ prompted' = IF cond.val THEN Append(prompted, var.name) ELSE prompted
                /\ ridx' = ridx + 1
                /\ UNCHANGED <<rpc, rerr>>
    /\ UNCHANGED <<table, variables, git, phases>>
    /\ NoOutputYet
    /\ OnlyRun

\* the loop is over
ResolveEnd ==
    /\ rpc = "resolve"
    /\ ridx > Len(variables)
    /\ rpc' = "resolved"
    /\ UNCHANGED <<table, variables, git, values, ridx, prompted, rerr, phases>>
    /\ NoOutputYet
    /\ OnlyRun

\* the run's own state, which the steps after the resolution leave alone
Resolved == UNCHANGED <<table, variables, git, values, ridx, prompted>>

\* the ways Template::generate fails
GenerateErrors ==
    {"failed to generate from template: Io",
     "failed to generate from template: MiniJinja",
     "panic: basename should be determined"}

\* template.generate(&values).context(..)?: a failing generate has dropped
\* its staging directory before it returns (a panic may leave it)
CallGenerate ==
    /\ rpc = "resolved"
    /\ phases' = Append(phases, "generate")
    /\ \E result \in {""} \cup GenerateErrors :
          IF result = ""
          THEN /\ tempdir' = "exists"
               /\ output' = <<"created">>
               /\ rpc' = "after"
               /\ UNCHANGED rerr
          ELSE /\ tempdir' \in (IF result = "panic: basename should be determined"
                                THEN {"deleted", "exists"} ELSE {"deleted"})
               /\ rpc' = "failed"
               /\ rerr' = result
               /\ UNCHANGED output
    /\ UNCHANGED <<answered, dest>>
    /\ Resolved
    /\ OnlyRun

\* the Output after a terminal operation, with a second one following it
ConsumeAndDispose(out, op) == Append(Append(out, op), "dispose")
\* the Output is moved into the operation that ends it: copy_dir_all gets its
\* TempDir by value ("apply"), TempDir::close takes it ("dispose"), or it
\* goes out of scope unused ("drop")
Consume(out, op) == Append(out, op)

\* the block around tapgen.after.hook: a failure returns from run while it
\* owns the Output, which is dropped
AfterHook ==
    /\ rpc = "after"
    /\ \E exists \in BOOLEAN, answer \in BOOLEAN,
          outcome \in HookOutcomes \cup {"render failed"} :
          IF exists /\ answer
          THEN /\ phases' = Append(phases, "after_hook")
               /\ IF outcome = "ok"
                  THEN /\ rpc' = "confirm"
                       /\ UNCHANGED <<rerr, output, tempdir>>
                  ELSE /\ rpc' = "failed"
                       /\ rerr' = IF outcome = "render failed"
                                  THEN "failed to render hook script as template"
                                  ELSE HookError("after", outcome)
                       /\ output' = Consume(output, "drop")
                       /\ tempdir' = "deleted"
          ELSE /\ rpc' = "confirm"
               /\ UNCHANGED <<phases, rerr, output, tempdir>>
    /\ UNCHANGED <<answered, dest>>
    /\ Resolved
    /\ OnlyRun

\* the destination after confirm_output, had it merged whatever the answer
MergeUnasked(d, answer, written) == IF written THEN "touched" ELSE d
\* the destination after confirm_output: copy_dir_all is called only under
\* `if prompt::confirm(..)`
Merge(d, answer, written) == IF answer /\ written THEN "touched" ELSE d

\* output.into_tempdir(): the Output gives up its TempDir, and the staging
\* directory stays as it is
into_tempdir(dir) == dir

\* confirm_output: copy_dir_all drops the TempDir it was given when it
\* returns, Ok or Err; TempDir::close removes the directory or reports why
\* it could not
ConfirmOutput ==
    /\ rpc = "confirm"
    /\ \E answer \in BOOLEAN, ok \in BOOLEAN, written \in BOOLEAN :
          /\ (answer /\ ok) => written
          /\ answered' = Some(answer)
          /\ dest' = Merge(dest, answer, written)
          /\ phases' = Append(phases, IF answer THEN "copy_dir_all" ELSE "close")
          /\ output' = Consume(output, IF answer THEN "apply" ELSE "dispose")
          /\ tempdir' = IF answer \/ ok THEN "deleted" ELSE into_tempdir(tempdir)
          /\ rpc' = IF ok THEN "done" ELSE "failed"
          /\ rerr' = IF ok THEN rerr
                     ELSE IF answer THEN "failed to apply output"
                     ELSE "failed to dispose output"
    /\ Resolved
    /\ OnlyRun

NextRun ==
    \/ LoadTemplate
    \/ BeforeHook
    \/ SeedContext
    \/ ResolveVariable
    \/ ResolveEnd
    \/ CallGenerate
    \/ AfterHook
    \/ ConfirmOutput

SpecRun == InitRun /\ [][NextRun]_vars

\* ---- claims about the resolution loop

\* the variable declarations in the order of the definition file
Declared == SelectSeq(table, LAMBDA d : d.name # NameKey)
PosInFile(n) == CHOOSE i \in 1..Len(Declared) : Declared[i].name = n
Seeded == {"_now"} \cup (IF git \in {"unconfigured", "configured"} THEN {"_git"} ELSE {})
InjectedValue(k) == IF k = "_now" THEN NowVal ELSE GitVal(git = "configured")
Resolving == rpc \in {"resolve", "resolved"} \/ (rpc = "failed" /\ ridx > 0)
\* the declared variables whose turn is over and that were not prompted for
SkippedNames ==
    {Declared[i].name : i \in {j \in 1..Len(Declared) : j < ridx}} \ Range(prompted)

\* C7 as stated: the name of a variable whose condition was false is absent
\* from the context from then on, so that the final context and every later
\* condition see it undefined.
C7_Original ==
    Resolving => \A n \in SkippedNames : values[n] = None

\* C7 amended: skipping a variable stores nothing under its name, neither a
\* default nor a placeholder: the name stays undefined in the context, for
\* the later conditions and in the final context, unless it is the name of an
\* injected key (_git, _now), which keeps its injected value.
C7_SkippedStoresNothing ==
    Resolving =>
      \A n \in SkippedNames :
         values[n] = IF n \in Seeded THEN Some(InjectedValue(n)) ELSE None

\* C7, its case: a is declared first and was answered false, b is declared
\* with the condition `a` and was skipped, and the final context has no b.
C7_Witness ==
    /\ rpc = "resolved"
    /\ Len(Declared) = 2
    /\ Declared[1] = Declaration("a", None)
    /\ Declared[2] = Declaration("b", Some(Cond("truthy", "a")))
    /\ values["a"] = Some(BoolVal(FALSE))
    /\ "b" \in SkippedNames
    /\ values["b"] = None

\* how the Output ended: the operations on it after its creation
Ends == SelectSeq(output, LAMBDA e : e # "created")
Called(c) == c \in Range(phases)
RunOver == rpc \in {"done", "failed"}

\* C12: an Output exists only once generate has succeeded; it is ended by at
\* most one operation at any time and, when the run is over, by exactly one:
\* the merge into the destination (copy_dir_all was called once, close was
\* not) or a disposal (close was called once, or the Output was dropped when
\* the after hook failed; copy_dir_all was not called).
C12_TerminatedOnce ==
    /\ Len(Ends) <= 1
    /\ output # <<>> => (Head(output) = "created" /\ Called("generate"))
    /\ rpc \in {"after", "confirm"} => (output = <<"created">> /\ tempdir = "exists")
    /\ (RunOver /\ output # <<>>) =>
          /\ Len(Ends) = 1
          /\ Ends[1] \in {"apply", "dispose", "drop"}
          /\ (Ends[1] = "apply") = Called("copy_dir_all")
          /\ (Ends[1] = "dispose") = Called("close")
          /\ ~(Called("copy_dir_all") /\ Called("close"))
    /\ Len(SelectSeq(phases, LAMBDA c : c \in {"copy_dir_all", "close"})) <= 1

\* C12, its case: generate succeeded, the after hook ran, the user confirmed
\* and the run ended with the Output merged into the destination.
C12_Witness ==
    /\ rpc = "done"
    /\ Called("after_hook")
    /\ output = <<"created", "apply">>
    /\ dest = "touched"
    /\ tempdir = "deleted"

\* C14: when Template::load fails, run has ended with that error and nothing
\* after load has started: no hook was run, the context was not seeded, no
\* variable was resolved, generate was not called, there is no staging
\* directory and the destination is untouched.
C14_LoadFailureEndsRun ==
    rerr \in LoadErrors =>
      /\ rpc = "failed"
      /\ phases = <<>>
      /\ ridx = 0
      /\ prompted = <<>>
      /\ \A k \in CtxKeys : values[k] = None
      /\ tempdir = "none"
      /\ output = <<>>
      /\ answered = None
      /\ dest = "untouched"

\* C14, its case: a definition file that declares variables failed to load
\* with a validation error, and run has returned it.
C14_Witness ==
    /\ rpc = "failed"
    /\ rerr = "failed to load template: ValidateVariable"
    /\ Declared # <<>>
    /\ phases = <<>>

\* C20: the destination is touched only by copy_dir_all, which is called
\* only after the user answered yes to "Apply output?"; when the user answers
\* no the destination is untouched and the staging directory is deleted
\* (unless TempDir::close fails, and then run returns that error); when run
\* fails before the question the destination is untouched.
C20_DestinationOnlyAfterConfirm ==
    /\ dest = "touched" => (answered = Some(TRUE) /\ Called("copy_dir_all"))
    /\ answered = Some(FALSE) =>
          /\ dest = "untouched"
          /\ ~Called("copy_dir_all")
          /\ rpc = "done" => tempdir = "deleted"
          /\ tempdir # "deleted" => (rpc = "failed" /\ rerr = "failed to dispose output")
    /\ (rpc = "failed" /\ answered = None) => dest = "untouched"

\* C20, its case: generate succeeded, the user declined to apply the output,
\* and run ended with the destination untouched and the staging directory
\* deleted.
C20_Witness ==
    /\ rpc = "done"
    /\ Called("generate")
    /\ answered = Some(FALSE)
    /\ dest = "untouched"
    /\ tempdir = "deleted"
    /\ output = <<"created", "dispose">>

\* C16: once the context is seeded, the injected keys _git and _now keep
\* their injected values while the declared variables are resolved, whatever
\* the names of the variables are.
C16_InjectedReadOnly ==
    Resolving => \A k \in Seeded : values[k] = Some(InjectedValue(k))

\* C16, the diverging state: the definition file declares a variable named
\* _now, the loop has prompted for it, and the context holds the answer under
\* _now in place of the injected date.
C16_InjectedReplaced ==
    /\ rpc = "resolved"
    /\ "_now" \in Range(prompted)
    /\ values["_now"] \in {Some(BoolVal(b)) : b \in BOOLEAN}

\* C8: the variables are resolved one at a time in the order of the
\* definition file, and when the condition of the variable declared i-th is
\* about to be evaluated the context holds exactly the injected keys and the
\* variables declared and resolved before it: no value for a variable
\* declared at or after it.
C8_DeclarationOrderVisibility ==
    /\ rpc \in {"seed", "resolve", "resolved"} =>
          /\ Len(variables) = Len(Declared)
          /\ \A i \in 1..Len(Declared) : variables[i].name = Declared[i].name
    /\ rpc = "resolve" =>
          /\ Range(prompted) \subseteq {Declared[j].name : j \in 1..(ridx - 1)}
          /\ \A i, j \in 1..Len(prompted) :
                i < j => PosInFile(prompted[i]) < PosInFile(prompted[j])
          /\ {k \in CtxKeys : IsSome(values[k])} = Seeded \cup Range(prompted)
          /\ \A j \in ridx..Len(Declared) :
                IsSome(values[Declared[j].name]) =>
                   /\ Declared[j].name \in Seeded
                   /\ values[Declared[j].name] = Some(InjectedValue(Declared[j].name))

\* C8, its case: the first declared variable has been resolved and the
\* condition of the second, which reads the first, is about to be evaluated.
C8_Witness ==
    /\ rpc = "resolve"
    /\ ridx = 2
    /\ Len(Declared) = 2
    /\ IsSome(Declared[2].condition)
    /\ Unwrap(Declared[2].condition).name = Declared[1].name
    /\ prompted = <<Declared[1].name>>
    /\ IsSome(values[Declared[1].name])

=============================================================================
